---- MODULE Spec2Model ----
(***************************************************************************)
(* Model of js-lib/state-controller.js of asciiflow2: the orthogonal line  *)
(* renderer drawLine, the four drawing strategies (DrawBox, DrawLine,      *)
(* DrawFreeform, DrawMove) and the dispatching ascii.StateController.      *)
(* The grid (ascii.State) and the point type (ascii.Vector) live in other  *)
(* files of the repository; they are modelled from their description.      *)
(***************************************************************************)
EXTENDS Integers, Sequences, FiniteSets, TLC

\* The grid has Width columns (x = 0 .. Width-1) and Height rows.
Width == 3
Height == 3
\* At most MaxSteps presses and pointer moves are explored in one run.
MaxSteps == 4

VARIABLES
  cells,        \* committed content of the grid: value of every cell
  scratch,      \* draft/preview layer: cells holding a special scratch value
  drawFunction, \* the active strategy instance of the StateController
  pointerDown,  \* TRUE between a press and its release
  event,        \* the event handled last: [type, args]
  calls,        \* names of the grid calls issued while handling that event
  moves,        \* number of moves handled in the gesture in progress
  budget,       \* number of presses and moves still to be explored
  tracing       \* the call of followLine in progress, when traced step by step

vars == <<cells, scratch, drawFunction, pointerDown, event, calls, moves, budget, tracing>>

(***************************************************************************)
(* ascii.Vector                                                            *)
(***************************************************************************)
Vector(x, y) == [x |-> x, y |-> y]

Points == {Vector(x, y) : x \in 0 .. Width - 1, y \in 0 .. Height - 1}

VectorAdd(a, b) == Vector(a.x + b.x, a.y + b.y)

\* length() is used only to test for the zero vector; the squared length
\* is zero exactly when the length is.
VectorLengthIsZero(a) == a.x * a.x + a.y * a.y = 0

(***************************************************************************)
(* ascii.State: the grid with its draft layer.  A grid is a record         *)
(* [cells, scratch, log]; log collects the names of the calls made.        *)
(***************************************************************************)
NullValue == "null"
SPECIAL_VALUE == "special"
FreeformValue == "O"
Values == {NullValue, SPECIAL_VALUE, FreeformValue}

\* A null reference is the empty tuple, a set reference a one-element tuple.
Null == <<>>
Ref(v) == <<v>>
Deref(r) == r[1]

EmptyCells == [p \in Points |-> NullValue]

\* The value a cell shows: its scratch value if it has one, else its value.
getRawValue(st, p) == IF p \in st.scratch THEN SPECIAL_VALUE ELSE st.cells[p]

isSpecial(st, p) == p \in Points /\ getRawValue(st, p) = SPECIAL_VALUE

getContext(st, p) ==
  [left  |-> isSpecial(st, VectorAdd(p, Vector(-1, 0))),
   right |-> isSpecial(st, VectorAdd(p, Vector(1, 0))),
   up    |-> isSpecial(st, VectorAdd(p, Vector(0, -1))),
   down  |-> isSpecial(st, VectorAdd(p, Vector(0, 1)))]

setValue(st, p, v) ==
  [st EXCEPT !.cells = [@ EXCEPT ![p] = v], !.log = Append(@, "setValue")]

drawSpecial(st, p) ==
  [st EXCEPT !.scratch = @ \cup {p}, !.log = Append(@, "drawSpecial")]

clearDraw(st) ==
  [st EXCEPT !.scratch = {}, !.log = Append(@, "clearDraw")]

commitDraw(st) ==
  [cells   |-> [p \in Points |-> getRawValue(st, p)],
   scratch |-> {},
   log     |-> Append(st.log, "commitDraw")]

(***************************************************************************)
(* drawLine                                                                *)
(***************************************************************************)
Min(a, b) == IF a < b THEN a ELSE b
Max(a, b) == IF a < b THEN b ELSE a

\* while (hX1++ < hX2) state.drawSpecial(new ascii.Vector(hX1, hY));
RECURSIVE HorizontalScan(_, _, _, _)
HorizontalScan(st, hX1, hX2, hY) ==
  IF hX1 < hX2
    THEN HorizontalScan(drawSpecial(st, Vector(hX1 + 1, hY)), hX1 + 1, hX2, hY)
    ELSE st

\* while (vY1++ < vY2) state.drawSpecial(new ascii.Vector(vX, vY1));
RECURSIVE VerticalScan(_, _, _, _)
VerticalScan(st, vY1, vY2, vX) ==
  IF vY1 < vY2
    THEN VerticalScan(drawSpecial(st, Vector(vX, vY1 + 1)), vY1 + 1, vY2, vX)
    ELSE st

\* Faulty variant: the corner cell is not drawn.
drawLineNoCorner(st, startPosition, endPosition, clockwise) ==
  LET hX1 == Min(startPosition.x, endPosition.x)
      vY1 == Min(startPosition.y, endPosition.y)
      hX2 == Max(startPosition.x, endPosition.x)
      vY2 == Max(startPosition.y, endPosition.y)
      hY  == IF clockwise THEN startPosition.y ELSE endPosition.y
      vX  == IF clockwise THEN endPosition.x ELSE startPosition.x
      s1  == HorizontalScan(st, hX1, hX2, hY)
      s2  == VerticalScan(s1, vY1, vY2, vX)
      s3  == drawSpecial(s2, startPosition)
  IN  drawSpecial(s3, endPosition)

\* Faulty variant: the vertical run is always drawn in the column of the end.
drawLineWrongColumn(st, startPosition, endPosition, clockwise) ==
  LET hX1 == Min(startPosition.x, endPosition.x)
      vY1 == Min(startPosition.y, endPosition.y)
      hX2 == Max(startPosition.x, endPosition.x)
      vY2 == Max(startPosition.y, endPosition.y)
      hY  == IF clockwise THEN startPosition.y ELSE endPosition.y
      vX  == endPosition.x
      s1  == HorizontalScan(st, hX1, hX2, hY)
      s2  == VerticalScan(s1, vY1, vY2, vX)
      s3  == drawSpecial(s2, startPosition)
      s4  == drawSpecial(s3, endPosition)
  IN  drawSpecial(s4, Vector(vX, hY))

drawLine(st, startPosition, endPosition, clockwise) ==
  LET hX1 == Min(startPosition.x, endPosition.x)
      vY1 == Min(startPosition.y, endPosition.y)
      hX2 == Max(startPosition.x, endPosition.x)
      vY2 == Max(startPosition.y, endPosition.y)
      hY  == IF clockwise THEN startPosition.y ELSE endPosition.y
      vX  == IF clockwise THEN endPosition.x ELSE startPosition.x
      s1  == HorizontalScan(st, hX1, hX2, hY)
      s2  == VerticalScan(s1, vY1, vY2, vX)
      s3  == drawSpecial(s2, startPosition)
      s4  == drawSpecial(s3, endPosition)
  IN  drawSpecial(s4, Vector(vX, hY))

(***************************************************************************)
(* Strategy instances.  One record shape serves the four constructors; a   *)
(* field a constructor does not set is Null.  Every method returns         *)
(* [self, state]: the instance and the grid after the call.                *)
(***************************************************************************)
NewDrawBox ==
  [kind |-> "box", startPosition |-> Null, endPosition |-> Null,
   value |-> NullValue, ends |-> Null]

NewDrawLine ==
  [kind |-> "line", startPosition |-> Null, endPosition |-> Null,
   value |-> NullValue, ends |-> Null]

NewDrawFreeform(value) ==
  [kind |-> "freeform", startPosition |-> Null, endPosition |-> Null,
   value |-> value, ends |-> Null]

NewDrawMove ==
  [kind |-> "move", startPosition |-> Null, endPosition |-> Null,
   value |-> NullValue, ends |-> Null]

Result(self, st) == [self |-> self, state |-> st]

\* ---- DrawBox
DrawBoxStart(self, st, position) ==
  Result([self EXCEPT !.startPosition = Ref(position)], st)

\* Faulty variant: the preview is not cleared before it is redrawn.
DrawBoxMoveNoClear(self, st, position) ==
  LET me == [self EXCEPT !.endPosition = Ref(position)]
  IN  IF self.startPosition = Null
        THEN Result(me, st)
        ELSE Result(me,
               drawLine(drawLine(st, Deref(self.startPosition), position, TRUE),
                        Deref(self.startPosition), position, FALSE))

\* Faulty variant: the second line repeats the orientation of the first.
DrawBoxMoveOneOrientation(self, st, position) ==
  LET me == [self EXCEPT !.endPosition = Ref(position)]
      s1 == clearDraw(st)
  IN  IF self.startPosition = Null
        THEN Result(me, s1)
        ELSE Result(me,
               drawLine(drawLine(s1, Deref(self.startPosition), position, TRUE),
                        Deref(self.startPosition), position, TRUE))

\* With startPosition still null, drawLine throws a TypeError on its first
\* line (startPosition.x), after endPosition was set and the draft cleared.
DrawBoxMove(self, st, position) ==
  LET me == [self EXCEPT !.endPosition = Ref(position)]
      s1 == clearDraw(st)
  IN  IF self.startPosition = Null
        THEN Result(me, s1)
        ELSE Result(me,
               drawLine(drawLine(s1, Deref(self.startPosition), position, TRUE),
                        Deref(self.startPosition), position, FALSE))

DrawBoxEnd(self, st, position) == Result(self, commitDraw(st))

\* ---- DrawLine
DrawLineStart(self, st, position) ==
  Result([self EXCEPT !.startPosition = Ref(position)], st)

\* Faulty variant: the preview is made permanent on every move.
DrawLineMoveCommits(self, st, position) ==
  LET s1 == clearDraw(st)
  IN  IF self.startPosition = Null
        THEN Result(self, s1)
        ELSE Result(self, commitDraw(drawLine(s1, Deref(self.startPosition), position, FALSE)))

\* Faulty variant: the contexts are read before the draft is cleared.
DrawLineMoveStaleContexts(self, st, position) ==
  LET s1 == clearDraw(st)
  IN  IF self.startPosition = Null
        THEN Result(self, s1)
        ELSE LET startContext == getContext(st, Deref(self.startPosition))
                 endContext   == getContext(st, position)
                 clockwise    == (startContext.up /\ startContext.down) \/
                                 (endContext.left /\ endContext.right)
             IN  Result(self, drawLine(s1, Deref(self.startPosition), position, clockwise))

\* With startPosition still null the handler throws a TypeError after the
\* draft was cleared and before anything is drawn.
DrawLineMove(self, st, position) ==
  LET s1 == clearDraw(st)
  IN  IF self.startPosition = Null
        THEN Result(self, s1)
        ELSE LET startContext == getContext(s1, Deref(self.startPosition))
                 endContext   == getContext(s1, position)
                 clockwise    == (startContext.up /\ startContext.down) \/
                                 (endContext.left /\ endContext.right)
             IN  Result(self, drawLine(s1, Deref(self.startPosition), position, clockwise))

DrawLineEnd(self, st, position) == Result(self, commitDraw(st))

\* ---- DrawFreeform
DrawFreeformStart(self, st, position) ==
  Result(self, setValue(st, position, self.value))

\* Faulty variant: the glyph is routed through the preview mechanism.
DrawFreeformMovePreviews(self, st, position) ==
  Result(self, drawSpecial(clearDraw(st), position))

DrawFreeformMove(self, st, position) ==
  Result(self, setValue(st, position, self.value))

DrawFreeformEnd(self, st, position) == Result(self, st)

\* ---- DrawMove
directions == <<Vector(1, 0), Vector(-1, 0), Vector(0, 1), Vector(0, -1)>>

BoolToInt(b) == IF b THEN 1 ELSE 0

\* The loop of followLine; endPosition is the cell reached so far.
RECURSIVE FollowLoop(_, _, _)
FollowLoop(st, endPosition, direction) ==
  LET nextEnd == VectorAdd(endPosition, direction)
  IN  IF ~isSpecial(st, nextEnd)
        THEN endPosition
        ELSE LET context == getContext(st, nextEnd)
             IN  IF ~(context.left /\ context.right /\ ~context.up /\ ~context.down) /\
                    ~(~context.left /\ ~context.right /\ context.up /\ context.down)
                   THEN nextEnd
                   ELSE FollowLoop(st, nextEnd, direction)

followLine(st, startPosition, direction) == FollowLoop(st, startPosition, direction)

\* Faulty variant: true when the first hop is vertical.
FirstHopClockwiseVertical(i) == directions[i].y # 0

\* Clockwise is true when the first hop is horizontal.
FirstHopClockwise(i) == directions[i].x # 0

\* Faulty variant: no direction is skipped.
GoesBackNever(i, j) == FALSE

\* "Don't go back on ourselves": the inner loop skips direction j.
GoesBack(i, j) == VectorLengthIsZero(VectorAdd(directions[i], directions[j]))

\* Faulty variant: a second leg that went nowhere still records its end.
SecondLegKeepsMidPoint(st, midPoint, i, j) ==
  IF GoesBack(i, j)
    THEN <<>>
    ELSE LET end == followLine(st, midPoint, directions[j])
         IN  <<[position |-> end, clockwise |-> FirstHopClockwise(i)]>>

\* One pass of the inner loop (for j in directions) from a midpoint.
SecondLeg(st, midPoint, i, j) ==
  IF GoesBack(i, j)
    THEN <<>>
    ELSE LET end == followLine(st, midPoint, directions[j])
         IN  IF midPoint = end
               THEN <<>>
               ELSE <<[position |-> end, clockwise |-> FirstHopClockwise(i)]>>

\* One pass of the outer loop (for i in directions): the ends it pushes.
FirstHop(st, position, i) ==
  LET midPoint == followLine(st, position, directions[i])
  IN  IF position = midPoint
        THEN <<>>
        ELSE LET midPointContext == getContext(st, midPoint)
             IN  IF BoolToInt(midPointContext.left) + BoolToInt(midPointContext.right) +
                    BoolToInt(midPointContext.up) + BoolToInt(midPointContext.down) = 1
                   THEN <<[position |-> midPoint, clockwise |-> FirstHopClockwise(i)]>>
                   ELSE SecondLeg(st, midPoint, i, 1) \o SecondLeg(st, midPoint, i, 2) \o
                        SecondLeg(st, midPoint, i, 3) \o SecondLeg(st, midPoint, i, 4)

\* Faulty variant: start erases the pivot cell it picks up.
DrawMoveStartLiftsPivot(self, st, position) ==
  LET ends == FirstHop(st, position, 1) \o FirstHop(st, position, 2) \o
              FirstHop(st, position, 3) \o FirstHop(st, position, 4)
  IN  Result([self EXCEPT !.ends = Ref(ends)], setValue(st, position, NullValue))

DrawMoveStart(self, st, position) ==
  LET ends == FirstHop(st, position, 1) \o FirstHop(st, position, 2) \o
              FirstHop(st, position, 3) \o FirstHop(st, position, 4)
  IN  Result([self EXCEPT !.ends = Ref(ends)], st)

\* for (var i in this.ends) drawLine(...), in the order of the list.
RECURSIVE DrawEnds(_, _, _, _)
DrawEnds(st, position, ends, i) ==
  IF i > Len(ends)
    THEN st
    ELSE DrawEnds(drawLine(st, position, ends[i].position, ends[i].clockwise),
                  position, ends, i + 1)

\* Faulty variant: the cell under the pointer is always marked.
DrawMoveMoveMarksPointer(self, st, position) ==
  LET s1 == clearDraw(st)
  IN  IF self.ends = Null
        THEN Result(self, s1)
        ELSE Result(self, drawSpecial(DrawEnds(s1, position, Deref(self.ends), 1), position))

\* Faulty variant: each line is drawn from the recorded end to the pointer.
RECURSIVE DrawEndsReversed(_, _, _, _)
DrawEndsReversed(st, position, ends, i) ==
  IF i > Len(ends)
    THEN st
    ELSE DrawEndsReversed(drawLine(st, ends[i].position, position, ends[i].clockwise),
                          position, ends, i + 1)

DrawMoveMoveReversed(self, st, position) ==
  LET s1 == clearDraw(st)
  IN  IF self.ends = Null
        THEN Result(self, s1)
        ELSE Result(self, DrawEndsReversed(s1, position, Deref(self.ends), 1))

\* Faulty variant: the preview is not cleared before it is redrawn.
DrawMoveMoveNoClear(self, st, position) ==
  IF self.ends = Null
    THEN Result(self, st)
    ELSE Result(self, DrawEnds(st, position, Deref(self.ends), 1))

\* With ends still null the for-in loop runs no iteration.
DrawMoveMove(self, st, position) ==
  LET s1 == clearDraw(st)
  IN  IF self.ends = Null
        THEN Result(self, s1)
        ELSE Result(self, DrawEnds(s1, position, Deref(self.ends), 1))

DrawMoveEnd(self, st, position) == Result(self, commitDraw(st))

(***************************************************************************)
(* ascii.StateController                                                   *)
(***************************************************************************)
\* this.drawFunction.start(position) and its siblings: dynamic dispatch.
Start(self, st, position) ==
  CASE self.kind = "box"      -> DrawBoxStart(self, st, position)
    [] self.kind = "line"     -> DrawLineStart(self, st, position)
    [] self.kind = "freeform" -> DrawFreeformStart(self, st, position)
    [] self.kind = "move"     -> DrawMoveStart(self, st, position)

Move(self, st, position) ==
  CASE self.kind = "box"      -> DrawBoxMove(self, st, position)
    [] self.kind = "line"     -> DrawLineMove(self, st, position)
    [] self.kind = "freeform" -> DrawFreeformMove(self, st, position)
    [] self.kind = "move"     -> DrawMoveMove(self, st, position)

End(self, st, position) ==
  CASE self.kind = "box"      -> DrawBoxEnd(self, st, position)
    [] self.kind = "line"     -> DrawLineEnd(self, st, position)
    [] self.kind = "freeform" -> DrawFreeformEnd(self, st, position)
    [] self.kind = "move"     -> DrawMoveEnd(self, st, position)

\* No call of followLine is being traced.
NoTrace == [pc |-> "idle"]

\* The grid as the handlers see it, with an empty call log.
CurrentState == [cells |-> cells, scratch |-> scratch, log |-> <<>>]

\* The event handled last with the arguments its handler reads: the position
\* of a press or a move; end handlers and click handlers read none.
Event(type, args) == [type |-> type, args |-> args]

\* The strategy a mode button constructs.
ButtonStrategy(button) ==
  CASE button = "box-button"      -> NewDrawBox
    [] button = "line-button"     -> NewDrawLine
    [] button = "freeform-button" -> NewDrawFreeform(FreeformValue)
    [] button = "erase-button"    -> NewDrawFreeform(NullValue)
    [] button = "move-button"     -> NewDrawMove

Buttons == {"box-button", "line-button", "freeform-button", "erase-button", "move-button"}

Init ==
  /\ cells = EmptyCells
  /\ scratch = {}
  /\ drawFunction = NewDrawBox
  /\ pointerDown = FALSE
  /\ event = Event("init", <<>>)
  /\ calls = <<>>
  /\ moves = 0
  /\ budget = MaxSteps
  /\ tracing = NoTrace

\* The click handlers of the five mode buttons.
Click(button) ==
  /\ drawFunction' = ButtonStrategy(button)
  /\ event' = Event(button, <<>>)
  /\ calls' = <<>>
  /\ UNCHANGED <<cells, scratch, pointerDown, moves, budget, tracing>>

handleDrawingPress(position) ==
  /\ ~pointerDown
  /\ budget > 0
  /\ \E r \in {Start(drawFunction, CurrentState, position)} :
       /\ drawFunction' = r.self
       /\ cells' = r.state.cells
       /\ scratch' = r.state.scratch
       /\ calls' = r.state.log
  /\ pointerDown' = TRUE
  /\ event' = Event("press", <<position>>)
  /\ moves' = 0
  /\ budget' = budget - 1
  /\ UNCHANGED tracing

handleDrawingMove(position) ==
  /\ pointerDown
  /\ budget > 0
  /\ \E r \in {Move(drawFunction, CurrentState, position)} :
       /\ drawFunction' = r.self
       /\ cells' = r.state.cells
       /\ scratch' = r.state.scratch
       /\ calls' = r.state.log
  /\ event' = Event("move", <<position>>)
  /\ moves' = moves + 1
  /\ budget' = budget - 1
  /\ UNCHANGED <<pointerDown, tracing>>

handleDrawingRelease(position) ==
  /\ pointerDown
  /\ \E r \in {End(drawFunction, CurrentState, position)} :
       /\ drawFunction' = r.self
       /\ cells' = r.state.cells
       /\ scratch' = r.state.scratch
       /\ calls' = r.state.log
  /\ pointerDown' = FALSE
  /\ event' = Event("release", <<>>)
  /\ moves' = 0
  /\ UNCHANGED <<budget, tracing>>

Next ==
  \/ \E button \in Buttons : Click(button)
  \/ \E position \in Points : handleDrawingPress(position)
  \/ \E position \in Points : handleDrawingMove(position)
  \/ \E position \in Points : handleDrawingRelease(position)

Spec == Init /\ [][Next]_vars

(***************************************************************************)
(* drawLine as a function of its arguments: every pair of points of the    *)
(* grid and both orientations, drawn on an empty draft layer.              *)
(***************************************************************************)
CallDrawLine(startPosition, endPosition, clockwise) ==
  /\ event.type = "init"
  /\ \E st \in {drawLine(CurrentState, startPosition, endPosition, clockwise)} :
       /\ cells' = st.cells
       /\ scratch' = st.scratch
       /\ calls' = st.log
  /\ event' = Event("drawLine", <<startPosition, endPosition, clockwise>>)
  /\ UNCHANGED <<drawFunction, pointerDown, moves, budget, tracing>>

NextDrawLine ==
  \E startPosition \in Points, endPosition \in Points, clockwise \in BOOLEAN :
    CallDrawLine(startPosition, endPosition, clockwise)

SpecDrawLine == Init /\ [][NextDrawLine]_vars

(***************************************************************************)
(* DrawMove.prototype.start as a function of the grid content and of the   *)
(* pivot: every set of special cells of the grid, every pivot.             *)
(***************************************************************************)
InitMoveStart ==
  /\ cells \in [Points -> {NullValue, SPECIAL_VALUE}]
  /\ scratch = {}
  /\ drawFunction = NewDrawMove
  /\ pointerDown = FALSE
  /\ event = Event("init", <<>>)
  /\ calls = <<>>
  /\ moves = 0
  /\ budget = MaxSteps
  /\ tracing = NoTrace

NextMoveStart == \E position \in Points : handleDrawingPress(position)

SpecMoveStart == InitMoveStart /\ [][NextMoveStart]_vars

(***************************************************************************)
(* Gestures of the Move and of the Line strategy on every set of special   *)
(* cells of the grid: GestureSteps presses and moves, and their releases.  *)
(***************************************************************************)
GestureSteps == 3

NextGesture ==
  \/ \E position \in Points : handleDrawingPress(position)
  \/ \E position \in Points : handleDrawingMove(position)
  \/ \E position \in Points : handleDrawingRelease(position)

InitMoveGesture ==
  /\ cells \in [Points -> {NullValue, SPECIAL_VALUE}]
  /\ scratch = {}
  /\ drawFunction = NewDrawMove
  /\ pointerDown = FALSE
  /\ event = Event("init", <<>>)
  /\ calls = <<>>
  /\ moves = 0
  /\ budget = GestureSteps
  /\ tracing = NoTrace

SpecMoveGesture == InitMoveGesture /\ [][NextGesture]_vars

InitLineGesture ==
  /\ cells \in [Points -> {NullValue, SPECIAL_VALUE}]
  /\ scratch = {}
  /\ drawFunction = NewDrawLine
  /\ pointerDown = FALSE
  /\ event = Event("init", <<>>)
  /\ calls = <<>>
  /\ moves = 0
  /\ budget = GestureSteps
  /\ tracing = NoTrace

SpecLineGesture == InitLineGesture /\ [][NextGesture]_vars

(***************************************************************************)
(* DrawMove.prototype.start step by step: one step per iteration of its    *)
(* two for-loops and of the while-loop of followLine.  tracing holds the   *)
(* local variables of start (position, i, j, midPoint, ends), those of the *)
(* followLine call in progress (startPosition, direction, endPosition),    *)
(* and counters of the calls made and of the iterations of the call.       *)
(***************************************************************************)
\* context is neither left-right only nor up-down only (lines 186-187).
NotStraight(context) ==
  ~(context.left /\ context.right /\ ~context.up /\ ~context.down) /\
  ~(~context.left /\ ~context.right /\ context.up /\ context.down)

\* The handler of a press is entered with the Move strategy active.
StartCall(position) ==
  /\ tracing.pc = "idle"
  /\ event.type = "init"
  /\ tracing' = [pc |-> "outer", position |-> position, i |-> 1, j |-> 1,
                 midPoint |-> position, ends |-> <<>>,
                 startPosition |-> position, direction |-> directions[1],
                 endPosition |-> position,
                 firstHops |-> 0, secondLegs |-> 0, iterations |-> 0]
  /\ pointerDown' = TRUE
  /\ UNCHANGED <<cells, scratch, drawFunction, event, calls, moves, budget>>

\* for (var i in directions): the next first hop is called, or the loop is
\* over and the ends are stored.
StartOuterLoop ==
  /\ tracing.pc = "outer"
  /\ IF tracing.i > Len(directions)
       THEN /\ tracing' = [tracing EXCEPT !.pc = "done"]
            /\ drawFunction' = [drawFunction EXCEPT !.ends = Ref(tracing.ends)]
            /\ event' = Event("press", <<tracing.position>>)
       ELSE /\ tracing' = [tracing EXCEPT !.pc = "firstHop",
                                          !.startPosition = tracing.position,
                                          !.direction = directions[tracing.i],
                                          !.endPosition = tracing.position,
                                          !.firstHops = @ + 1,
                                          !.iterations = 0]
            /\ UNCHANGED <<drawFunction, event>>
  /\ UNCHANGED <<cells, scratch, pointerDown, calls, moves, budget>>

\* Faulty variant: the loop of followLine does not advance endPosition.
FollowLineStepStalls ==
  /\ tracing.pc \in {"firstHop", "secondLeg"}
  /\ LET nextEnd == VectorAdd(tracing.endPosition, tracing.direction)
     IN  IF ~isSpecial(CurrentState, nextEnd)
           THEN tracing' = [tracing EXCEPT !.pc = IF @ = "firstHop" THEN "firstReturned"
                                                                   ELSE "secondReturned"]
           ELSE IF NotStraight(getContext(CurrentState, nextEnd))
                  THEN tracing' = [tracing EXCEPT !.pc = IF @ = "firstHop" THEN "firstReturned"
                                                                          ELSE "secondReturned",
                                                 !.endPosition = nextEnd]
                  ELSE UNCHANGED tracing
  /\ UNCHANGED <<cells, scratch, drawFunction, pointerDown, event, calls, moves, budget>>

\* Faulty variant: followLine does not stop on a corner or a branch.
FollowLineStepCrossesCorners ==
  /\ tracing.pc \in {"firstHop", "secondLeg"}
  /\ LET nextEnd == VectorAdd(tracing.endPosition, tracing.direction)
     IN  IF ~isSpecial(CurrentState, nextEnd)
           THEN tracing' = [tracing EXCEPT !.pc = IF @ = "firstHop" THEN "firstReturned"
                                                                   ELSE "secondReturned",
                                          !.iterations = @ + 1]
           ELSE tracing' = [tracing EXCEPT !.endPosition = nextEnd,
                                          !.iterations = @ + 1]
  /\ UNCHANGED <<cells, scratch, drawFunction, pointerDown, event, calls, moves, budget>>

\* One iteration of while (true) in followLine.
FollowLineStep ==
  /\ tracing.pc \in {"firstHop", "secondLeg"}
  /\ LET nextEnd  == VectorAdd(tracing.endPosition, tracing.direction)
         returned == IF tracing.pc = "firstHop" THEN "firstReturned" ELSE "secondReturned"
     IN  IF ~isSpecial(CurrentState, nextEnd)
           THEN tracing' = [tracing EXCEPT !.pc = returned, !.iterations = @ + 1]
           ELSE IF NotStraight(getContext(CurrentState, nextEnd))
                  THEN tracing' = [tracing EXCEPT !.pc = returned,
                                                 !.endPosition = nextEnd,
                                                 !.iterations = @ + 1]
                  ELSE tracing' = [tracing EXCEPT !.endPosition = nextEnd,
                                                 !.iterations = @ + 1]
  /\ UNCHANGED <<cells, scratch, drawFunction, pointerDown, event, calls, moves, budget>>

\* The first hop has returned midPoint (lines 134-147).
StartFirstHopReturned ==
  /\ tracing.pc = "firstReturned"
  /\ LET midPoint        == tracing.endPosition
         clockwise       == FirstHopClockwise(tracing.i)
         midPointContext == getContext(CurrentState, midPoint)
     IN  IF tracing.position = midPoint
           THEN tracing' = [tracing EXCEPT !.pc = "outer", !.midPoint = midPoint, !.i = @ + 1]
           ELSE IF BoolToInt(midPointContext.left) + BoolToInt(midPointContext.right) +
                   BoolToInt(midPointContext.up) + BoolToInt(midPointContext.down) = 1
                  THEN tracing' = [tracing EXCEPT
                                     !.pc = "outer", !.midPoint = midPoint, !.i = @ + 1,
                                     !.ends = Append(@, [position |-> midPoint,
                                                         clockwise |-> clockwise])]
                  ELSE tracing' = [tracing EXCEPT !.pc = "inner", !.midPoint = midPoint,
                                                 !.j = 1]
  /\ UNCHANGED <<cells, scratch, drawFunction, pointerDown, event, calls, moves, budget>>

\* for (var j in directions): the next second leg is called, the direction
\* back to the pivot is skipped, or the loop is over (lines 149-154).
StartInnerLoop ==
  /\ tracing.pc = "inner"
  /\ IF tracing.j > Len(directions)
       THEN tracing' = [tracing EXCEPT !.pc = "outer", !.i = @ + 1]
       ELSE IF GoesBack(tracing.i, tracing.j)
              THEN tracing' = [tracing EXCEPT !.j = @ + 1]
              ELSE tracing' = [tracing EXCEPT !.pc = "secondLeg",
                                             !.startPosition = tracing.midPoint,
                                             !.direction = directions[tracing.j],
                                             !.endPosition = tracing.midPoint,
                                             !.secondLegs = @ + 1,
                                             !.iterations = 0]
  /\ UNCHANGED <<cells, scratch, drawFunction, pointerDown, event, calls, moves, budget>>

\* Faulty variant: the flag of an end follows the direction of its second leg.
StartSecondLegReturnedOwnFlag ==
  /\ tracing.pc = "secondReturned"
  /\ LET end == tracing.endPosition
     IN  IF tracing.midPoint = end
           THEN tracing' = [tracing EXCEPT !.pc = "inner", !.j = @ + 1]
           ELSE tracing' = [tracing EXCEPT
                              !.pc = "inner", !.j = @ + 1,
                              !.ends = Append(@, [position |-> end,
                                                  clockwise |-> FirstHopClockwise(tracing.j)])]
  /\ UNCHANGED <<cells, scratch, drawFunction, pointerDown, event, calls, moves, budget>>

\* The second leg has returned end (lines 154-159).
StartSecondLegReturned ==
  /\ tracing.pc = "secondReturned"
  /\ LET end == tracing.endPosition
     IN  IF tracing.midPoint = end
           THEN tracing' = [tracing EXCEPT !.pc = "inner", !.j = @ + 1]
           ELSE tracing' = [tracing EXCEPT
                              !.pc = "inner", !.j = @ + 1,
                              !.ends = Append(@, [position |-> end,
                                                  clockwise |-> FirstHopClockwise(tracing.i)])]
  /\ UNCHANGED <<cells, scratch, drawFunction, pointerDown, event, calls, moves, budget>>

\* The steps of start once it was called.
StartSteps ==
  \/ StartOuterLoop
  \/ FollowLineStep
  \/ StartFirstHopReturned
  \/ StartInnerLoop
  \/ StartSecondLegReturned

NextStartTrace ==
  \/ \E position \in Points : StartCall(position)
  \/ StartSteps

InitStartTrace ==
  /\ cells \in [Points -> {NullValue, SPECIAL_VALUE}]
  /\ scratch = {}
  /\ drawFunction = NewDrawMove
  /\ pointerDown = FALSE
  /\ event = Event("init", <<>>)
  /\ calls = <<>>
  /\ moves = 0
  /\ budget = MaxSteps
  /\ tracing = NoTrace

SpecStartTrace == InitStartTrace /\ [][NextStartTrace]_vars

\* The handler runs to completion: no step of start waits for ever.
SpecStartTraceFair == SpecStartTrace /\ WF_vars(StartSteps)

(***************************************************************************)
(* Properties of the dispatcher and of the gesture protocol (Spec).        *)
(***************************************************************************)
\* A cell is special in the committed content.
Committed(p) == p \in Points /\ cells[p] = SPECIAL_VALUE

\* The instance has received start since it was constructed: its gesture
\* state is set.  DrawFreeform keeps no gesture state.
Started(self) ==
  CASE self.kind \in {"box", "line"} -> self.startPosition # Null
    [] self.kind = "move"            -> self.ends # Null
    [] self.kind = "freeform"        -> TRUE

\* C1 (as claimed): between the press and the release of a gesture, for
\* every strategy kind, the committed content of the grid is unchanged:
\* no press and no move changes a committed cell.
C1_CommittedUnchangedInGesture ==
  [][event'.type \in {"press", "move"} => cells' = cells]_vars

\* C1 (amended): a press or a move handled by a Box, Line or Move strategy
\* leaves the committed content unchanged; the committed content changes
\* only by a commitDraw issued while handling a release, or by the setValue
\* of a Freeform press or move.
C1_PreviewStrategiesKeepCommitted ==
  [][/\ (event'.type \in {"press", "move"} /\ drawFunction.kind # "freeform")
          => cells' = cells
     /\ cells' # cells =>
          \/ event'.type = "release" /\ calls' = <<"commitDraw">>
          \/ /\ event'.type \in {"press", "move"}
             /\ drawFunction.kind = "freeform"
             /\ calls' = <<"setValue">>]_vars

\* A preview strategy has drawn a preview over cells that are not committed.
C1_Witness ==
  /\ pointerDown
  /\ event.type = "move"
  /\ drawFunction.kind \in {"box", "line", "move"}
  /\ \E p \in scratch : ~Committed(p)

\* C2: every move or end delivered to a strategy instance is preceded by a
\* start delivered to that same instance: after a move or a release was
\* handled, the gesture state of the handling instance is set.
C2_MoveAndEndFollowStart ==
  event.type \in {"move", "release"} => Started(drawFunction)

\* C3: a preview abandoned by a mode switch in the middle of a gesture is
\* never made permanent through the new strategy: a release handled by an
\* instance that received no start (it was constructed after the press)
\* changes no committed cell.
C3_AbandonedPreviewNotCommitted ==
  [][(event'.type = "release" /\ ~Started(drawFunction)) => cells' = cells]_vars

\* C4 (as claimed): no drawSpecial and no setValue is issued without a
\* clearDraw before it in the same event, and commitDraw is issued only
\* while handling a release.
C4_DraftDiscipline ==
  /\ \A i \in 1 .. Len(calls) :
       calls[i] \in {"drawSpecial", "setValue"} =>
         \E j \in 1 .. i - 1 : calls[j] = "clearDraw"
  /\ \A i \in 1 .. Len(calls) : calls[i] = "commitDraw" => event.type = "release"

\* C4 (amended): an event issues at most one clearDraw, as its first call;
\* no drawSpecial is issued without that clearDraw before it in the same
\* event; commitDraw is issued only while handling a release, as the only
\* call; a setValue is issued by a Freeform press or move alone, without
\* any clearDraw.
C4_DraftDisciplineOfPreview ==
  /\ \A i \in 1 .. Len(calls) : calls[i] = "clearDraw" => i = 1
  /\ \A i \in 1 .. Len(calls) :
       calls[i] = "drawSpecial" => (i > 1 /\ calls[1] = "clearDraw")
  /\ \A i \in 1 .. Len(calls) :
       calls[i] = "commitDraw" => (event.type = "release" /\ Len(calls) = 1)
  /\ \A i \in 1 .. Len(calls) :
       calls[i] = "setValue" =>
         /\ event.type \in {"press", "move"}
         /\ drawFunction.kind = "freeform"
         /\ Len(calls) = 1

\* A move has cleared the draft and drawn a preview.
C4_Witness ==
  /\ event.type = "move"
  /\ Len(calls) > 3
  /\ calls[1] = "clearDraw"
  /\ calls[2] = "drawSpecial"

\* The cells of the orthogonal path between a and b: the row hY between
\* the two columns and the column vX between the two rows, bounds included.
OrthogonalPath(a, b, clockwise) ==
  LET hY == IF clockwise THEN a.y ELSE b.y
      vX == IF clockwise THEN b.x ELSE a.x
  IN  {Vector(x, hY) : x \in Min(a.x, b.x) .. Max(a.x, b.x)} \cup
      {Vector(vX, y) : y \in Min(a.y, b.y) .. Max(a.y, b.y)}

\* The preview a started Box, Line or Move instance shows for the pointer
\* position q, as a function of q, of the gesture state and of the
\* committed content alone.
PreviewAt(self, q) ==
  CASE self.kind = "box" ->
         OrthogonalPath(Deref(self.startPosition), q, TRUE) \cup
         OrthogonalPath(Deref(self.startPosition), q, FALSE)
    [] self.kind = "line" ->
         LET a == Deref(self.startPosition)
             clockwise ==
               \/ Committed(Vector(a.x, a.y - 1)) /\ Committed(Vector(a.x, a.y + 1))
               \/ Committed(Vector(q.x - 1, q.y)) /\ Committed(Vector(q.x + 1, q.y))
         IN  OrthogonalPath(a, q, clockwise)
    [] self.kind = "move" ->
         UNION {OrthogonalPath(q, Deref(self.ends)[i].position,
                               Deref(self.ends)[i].clockwise) :
                  i \in 1 .. Len(Deref(self.ends))}

\* C5 (as claimed): every move handler of every strategy clears the
\* previous preview before it draws, so that the draft after the moves
\* move(p1) .. move(pn) of one gesture is the draft of the single move(pn).
C5_EveryMoveRedraws ==
  event.type = "move" =>
    /\ calls # <<>> /\ calls[1] = "clearDraw"
    /\ (drawFunction.kind # "freeform" /\ Started(drawFunction)) =>
         scratch = PreviewAt(drawFunction, event.args[1])

\* C5 (amended): the move handlers of Box, Line and Move clear the previous
\* preview before they draw, so that the draft after the moves move(p1) ..
\* move(pn) of one gesture is the draft of the single move(pn) after the
\* same start; the move handler of Freeform clears nothing.
C5_PreviewMoveRedraws ==
  event.type = "move" =>
    IF drawFunction.kind = "freeform"
      THEN calls = <<"setValue">>
      ELSE /\ calls # <<>> /\ calls[1] = "clearDraw"
           /\ Started(drawFunction) =>
                scratch = PreviewAt(drawFunction, event.args[1])

\* The second move of a Line gesture has redrawn the preview: the line from
\* (0,0) to (0,2), which holds no cell of another column that the first
\* move may have drawn.
C5_Witness ==
  /\ event.type = "move"
  /\ moves >= 2
  /\ drawFunction.kind = "line"
  /\ drawFunction.startPosition = Ref(Vector(0, 0))
  /\ event.args[1] = Vector(0, 2)
  /\ scratch = {Vector(0, 0), Vector(0, 1), Vector(0, 2)}

\* C8: after start(A) and move(B) of the Box strategy the preview is the
\* union of the cells of drawLine(A, B, true) and drawLine(A, B, false), and
\* it is the outline of the rectangle with the opposite corners A and B.
EmptyDraft == [cells |-> cells, scratch |-> {}, log |-> <<>>]

Outline(a, b) ==
  {p \in Points :
     /\ Min(a.x, b.x) <= p.x /\ p.x <= Max(a.x, b.x)
     /\ Min(a.y, b.y) <= p.y /\ p.y <= Max(a.y, b.y)
     /\ \/ p.x \in {a.x, b.x}
        \/ p.y \in {a.y, b.y}}

C8_BoxIsOutline ==
  (event.type = "move" /\ drawFunction.kind = "box" /\ Started(drawFunction)) =>
    LET a == Deref(drawFunction.startPosition)
        b == event.args[1]
    IN  /\ scratch = drawLine(EmptyDraft, a, b, TRUE).scratch \cup
                     drawLine(EmptyDraft, a, b, FALSE).scratch
        /\ scratch = Outline(a, b)

\* A box with an interior cell: the outline of the whole grid.
C8_Witness ==
  /\ event.type = "move"
  /\ drawFunction.kind = "box"
  /\ Started(drawFunction)
  /\ Deref(drawFunction.startPosition).x + 2 <= event.args[1].x
  /\ Deref(drawFunction.startPosition).y + 2 <= event.args[1].y
  /\ Cardinality(scratch) >= 8

(***************************************************************************)
(* Properties of drawLine (SpecDrawLine).                                  *)
(***************************************************************************)
\* C6: the cells drawLine(A, B, clockwise) marks are exactly the row hY from
\* min(A.x, B.x) to max(A.x, B.x) and the column vX from min(A.y, B.y) to
\* max(A.y, B.y), with the corner (vX, hY) = (B.x, A.y) when clockwise and
\* (A.x, B.y) otherwise: no cell more and no cell less.
C6_DrawLineIsOrthogonalPath ==
  event.type = "drawLine" =>
    LET a == event.args[1]
        b == event.args[2]
        clockwise == event.args[3]
        hY == IF clockwise THEN a.y ELSE b.y
        vX == IF clockwise THEN b.x ELSE a.x
    IN  /\ cells = EmptyCells
        /\ \A p \in Points :
             p \in scratch <=>
               \/ p.y = hY /\ Min(a.x, b.x) <= p.x /\ p.x <= Max(a.x, b.x)
               \/ p.x = vX /\ Min(a.y, b.y) <= p.y /\ p.y <= Max(a.y, b.y)

\* A bent line: the two ends differ in both coordinates.
C6_Witness ==
  /\ event.type = "drawLine"
  /\ event.args[1].x > event.args[2].x + 1
  /\ event.args[1].y < event.args[2].y - 1
  /\ Cardinality(scratch) = 5

\* C7: drawLine(A, B, true) and drawLine(A, B, false) both mark A, B and
\* their corner; when A and B share a row or a column the two orientations
\* mark the same cells.
C7_EndsCornerAndDegenerate ==
  event.type = "drawLine" =>
    LET a == event.args[1]
        b == event.args[2]
        clockwise == event.args[3]
        corner == IF clockwise THEN Vector(b.x, a.y) ELSE Vector(a.x, b.y)
    IN  /\ {a, b, corner} \subseteq scratch
        /\ (a.x = b.x \/ a.y = b.y) =>
             scratch = drawLine(EmptyDraft, a, b, ~clockwise).scratch

\* A straight line of three cells.
C7_Witness ==
  /\ event.type = "drawLine"
  /\ event.args[1].y = event.args[2].y
  /\ event.args[1].x + 2 = event.args[2].x
  /\ Cardinality(scratch) = 3

(***************************************************************************)
(* Properties of DrawMove.prototype.start (SpecMoveStart).                 *)
(***************************************************************************)
\* A cell shows a special value.
Special(p) == p \in Points /\ (p \in scratch \/ cells[p] = SPECIAL_VALUE)

\* The first hop in direction i makes progress from the pivot.
MakesProgress(position, i) ==
  followLine(CurrentState, position, directions[i]) # position

\* The DrawEnds recorded by the start handled last, and its pivot.
RecordedEnds == Deref(drawFunction.ends)
Pivot == event.args[1]

AfterMoveStart ==
  event.type = "press" /\ drawFunction.kind = "move" /\ drawFunction.ends # Null

\* C9 (as claimed): start records between 0 and 8 DrawEnds, and every first
\* hop that makes progress contributes one or two of them.
C9_OneOrTwoEndsPerDirection ==
  AfterMoveStart =>
    /\ Len(RecordedEnds) \in 0 .. 8
    /\ \A i \in 1 .. 4 :
         MakesProgress(Pivot, i) =>
           Len(FirstHop(CurrentState, Pivot, i)) \in {1, 2}

\* C9 (amended): start records between 0 and 12 DrawEnds, the ends of the
\* four first hops in turn; a first hop that makes no progress contributes
\* none, one that makes progress contributes at most three, and at least
\* one when the pivot cell is special.
C9_UpToThreeEndsPerDirection ==
  AfterMoveStart =>
    \E hop \in {[i \in 1 .. 4 |-> FirstHop(CurrentState, Pivot, i)]} :
      /\ Len(RecordedEnds) \in 0 .. 12
      /\ RecordedEnds = hop[1] \o hop[2] \o hop[3] \o hop[4]
      /\ \A i \in 1 .. 4 :
           /\ Len(hop[i]) \in 0 .. 3
           /\ Len(hop[i]) = 0 => (~MakesProgress(Pivot, i) \/ ~Special(Pivot))
           /\ Len(hop[i]) > 0 => MakesProgress(Pivot, i)

\* A first hop ends on a crossing and contributes three DrawEnds.
C9_Witness ==
  /\ AfterMoveStart
  /\ \E i \in 1 .. 4 : Len(FirstHop(CurrentState, Pivot, i)) = 3

\* The pivot lies on a horizontal run of special cells from column x1 to
\* column x2 of its row: the run is maximal and has at least two cells, and
\* no cell of it has a special cell above or below (no branch, no corner).
HorizontalRunAt(position, x1, x2) ==
  /\ x1 <= position.x /\ position.x <= x2 /\ x1 < x2
  /\ \A x \in x1 .. x2 :
       /\ Special(Vector(x, position.y))
       /\ ~Special(Vector(x, position.y - 1))
       /\ ~Special(Vector(x, position.y + 1))
  /\ ~Special(Vector(x1 - 1, position.y))
  /\ ~Special(Vector(x2 + 1, position.y))

VerticalRunAt(position, y1, y2) ==
  /\ y1 <= position.y /\ position.y <= y2 /\ y1 < y2
  /\ \A y \in y1 .. y2 :
       /\ Special(Vector(position.x, y))
       /\ ~Special(Vector(position.x - 1, y))
       /\ ~Special(Vector(position.x + 1, y))
  /\ ~Special(Vector(position.x, y1 - 1))
  /\ ~Special(Vector(position.x, y2 + 1))

AfterMoveMove ==
  event.type = "move" /\ drawFunction.kind = "move" /\ drawFunction.ends # Null

\* C11: after start(P) recorded the DrawEnds E, move(Q) leaves the preview
\* equal to the union, over the ends e of E, of the cells that
\* drawLine(Q, e.position, e.clockwise) marks, and nothing else, and leaves
\* E as it was.  For a run of three special cells in a row, the pivot at
\* its left end and Q two rows below the pivot, the one line drawn is
\* drawLine(Q, right end, true), with its bend below the right end.
C11_MoveDrawsLineToEveryEnd ==
  /\ AfterMoveMove =>
       /\ scratch = UNION {drawLine(EmptyDraft, event.args[1], RecordedEnds[i].position,
                                    RecordedEnds[i].clockwise).scratch :
                             i \in 1 .. Len(RecordedEnds)}
       /\ \A p \in Points :
            p \in scratch <=>
              \E i \in 1 .. Len(RecordedEnds) :
                LET q == event.args[1]
                    e == RecordedEnds[i]
                    hY == IF e.clockwise THEN q.y ELSE e.position.y
                    vX == IF e.clockwise THEN e.position.x ELSE q.x
                IN  \/ /\ p.y = hY
                       /\ Min(q.x, e.position.x) <= p.x
                       /\ p.x <= Max(q.x, e.position.x)
                    \/ /\ p.x = vX
                       /\ Min(q.y, e.position.y) <= p.y
                       /\ p.y <= Max(q.y, e.position.y)
  /\ (AfterMoveMove /\ Len(RecordedEnds) = 1 /\ RecordedEnds[1].clockwise
        /\ event.args[1].x + 2 = RecordedEnds[1].position.x
        /\ event.args[1].y = RecordedEnds[1].position.y + 2) =>
       /\ Vector(RecordedEnds[1].position.x, event.args[1].y) \in scratch
       /\ Cardinality(scratch) = 5

\* The run of row 0, picked up at its left end (0,0) and dragged to (0,2):
\* the line to the end (2,0) bends at (2,2).
C11_Witness ==
  /\ AfterMoveMove
  /\ {p \in Points : Committed(p)} = {Vector(0, 0), Vector(1, 0), Vector(2, 0)}
  /\ RecordedEnds = <<[position |-> Vector(2, 0), clockwise |-> TRUE]>>
  /\ event.args[1] = Vector(0, 2)
  /\ Vector(2, 2) \in scratch
  /\ Vector(0, 1) \notin scratch

\* C12: when the pivot has no special cell among its four neighbours,
\* start records no DrawEnd; and when start recorded no DrawEnd, a move
\* marks no cell (the preview is empty after it) and the end that follows
\* the move commits no new cell.
C12_NoEndsNoEffect ==
  /\ [](/\ (AfterMoveStart /\ \A i \in 1 .. 4 : ~Special(VectorAdd(Pivot, directions[i])))
             => RecordedEnds = <<>>
        /\ (AfterMoveMove /\ RecordedEnds = <<>>)
             => (scratch = {} /\ calls = <<"clearDraw">>))
  /\ [][(/\ event'.type = "release"
         /\ event.type = "move"
         /\ drawFunction.kind = "move"
         /\ drawFunction.ends = Ref(<<>>))
           => (cells' = cells /\ scratch' = {})]_vars

\* A pivot without special neighbours on a grid that holds special cells
\* was dragged: nothing is drawn.
C12_Witness ==
  /\ AfterMoveMove
  /\ RecordedEnds = <<>>
  /\ calls = <<"clearDraw">>
  /\ scratch = {}
  /\ Cardinality({p \in Points : Committed(p)}) >= 3

\* The orientation the Line strategy infers for anchor a and pointer p, from
\* the committed content alone.
InferredClockwise(a, p) ==
  \/ Committed(VectorAdd(a, Vector(0, -1))) /\ Committed(VectorAdd(a, Vector(0, 1)))
  \/ Committed(VectorAdd(p, Vector(-1, 0))) /\ Committed(VectorAdd(p, Vector(1, 0)))

AfterLineMove ==
  event.type = "move" /\ drawFunction.kind = "line" /\ drawFunction.startPosition # Null

\* C13: after start(A), move(p) of the Line strategy leaves the preview equal
\* to the cells of drawLine(A, p, clockwise), where clockwise holds exactly
\* when A has both its up and down neighbours special or p has both its left
\* and right neighbours special in the committed content (the contexts are
\* read after the previous preview was cleared); when clockwise holds the
\* corner (p.x, A.y) is drawn, which is p itself when p lies in the row of A.
C13_LineInfersOrientation ==
  AfterLineMove =>
    \E a \in {Deref(drawFunction.startPosition)}, p \in {event.args[1]} :
      /\ scratch = drawLine(EmptyDraft, a, p, InferredClockwise(a, p)).scratch
      /\ scratch = OrthogonalPath(a, p, InferredClockwise(a, p))
      /\ InferredClockwise(a, p) => Vector(p.x, a.y) \in scratch
      /\ ~InferredClockwise(a, p) => Vector(a.x, p.y) \in scratch

\* The anchor (0,1) has its up and down neighbours special and the pointer,
\* moved for the second time, is at (2,2): the line leaves the anchor
\* horizontally and bends at (2,1).
C13_Witness ==
  /\ AfterLineMove
  /\ moves >= 2
  /\ drawFunction.startPosition = Ref(Vector(0, 1))
  /\ Committed(Vector(0, 0)) /\ Committed(Vector(0, 2))
  /\ ~Committed(Vector(1, 2))
  /\ event.args[1] = Vector(2, 2)
  /\ scratch = {Vector(0, 1), Vector(1, 1), Vector(2, 1), Vector(2, 2)}

\* C14: start(p) and move(p) of the Freeform strategy each set exactly the
\* cell at p to the glyph of the strategy (null for erase), leave every
\* other cell and the draft layer unchanged and call neither clearDraw nor
\* drawSpecial nor commitDraw; end changes nothing in the grid.
C14_FreeformWritesOneCell ==
  [][/\ (drawFunction.kind = "freeform" /\ event'.type \in {"press", "move"})
          => /\ cells' = [cells EXCEPT ![event'.args[1]] = drawFunction.value]
             /\ scratch' = scratch
             /\ calls' = <<"setValue">>
     /\ (drawFunction.kind = "freeform" /\ event'.type = "release")
          => /\ cells' = cells
             /\ scratch' = scratch
             /\ calls' = <<>>]_vars

\* Freeform with glyph 'O': pressed at (1,1) and moved to (2,1), both cells
\* hold the glyph at once and nothing else was written.
C14_Witness ==
  /\ event = Event("move", <<Vector(2, 1)>>)
  /\ drawFunction = NewDrawFreeform(FreeformValue)
  /\ moves = 1
  /\ calls = <<"setValue">>
  /\ scratch = {}
  /\ cells = [p \in Points |->
                IF p \in {Vector(1, 1), Vector(2, 1)} THEN FreeformValue ELSE NullValue]

(***************************************************************************)
(* Properties of followLine and of start, step by step (SpecStartTrace).   *)
(***************************************************************************)
\* A call of followLine has just returned tracing.endPosition.
Returned == tracing.pc \in {"firstReturned", "secondReturned"}

\* The point s + k*d.
Along(s, d, k) == Vector(s.x + k * d.x, s.y + k * d.y)

\* The context of p is left and right only, or up and down only.
Straight(p) ==
  LET left  == Special(VectorAdd(p, Vector(-1, 0)))
      right == Special(VectorAdd(p, Vector(1, 0)))
      up    == Special(VectorAdd(p, Vector(0, -1)))
      down  == Special(VectorAdd(p, Vector(0, 1)))
  IN  \/ left /\ right /\ ~up /\ ~down
      \/ ~left /\ ~right /\ up /\ down

\* Tracing from s along d stops on s + k*d.
Stops(s, d, k) ==
  \/ ~Special(Along(s, d, k + 1))
  \/ k >= 1 /\ ~Straight(Along(s, d, k))

\* C15: followLine(s, d) returns s + k*d for the smallest k >= 0 such that
\* s + (k+1)*d is not special, or k >= 1 and s + k*d is not straight; every
\* cell s+d .. s+k*d is special, every cell strictly between s and the
\* result is straight, and a corner or branch cell met on the way is the
\* cell returned.
C15_FollowLineStopsAtFirstBreak ==
  Returned =>
    \E s \in {tracing.startPosition}, d \in {tracing.direction}, r \in {tracing.endPosition} :
      /\ r = followLine(CurrentState, s, d)
      /\ \E k \in 0 .. Max(Width, Height) :
           /\ r = Along(s, d, k)
           /\ Stops(s, d, k)
           /\ \A m \in 0 .. k - 1 : ~Stops(s, d, m)
           /\ \A m \in 1 .. k : Special(Along(s, d, m))
           /\ \A m \in 1 .. k - 1 : Straight(Along(s, d, m))
           /\ \A m \in 1 .. Max(Width, Height) :
                (m <= k /\ ~Straight(Along(s, d, m))) => m = k

\* Tracing from (0,0) to the right was stopped by the branch cell (1,0),
\* from which a line goes down, although the line goes on to (2,0).
C15_Witness ==
  /\ tracing.pc = "firstReturned"
  /\ tracing.startPosition = Vector(0, 0)
  /\ tracing.direction = Vector(1, 0)
  /\ tracing.endPosition = Vector(1, 0)
  /\ Special(Vector(2, 0))
  /\ Special(Vector(1, 1))
  /\ ~Special(Vector(0, 1))

\* The first hop in progress is horizontal (+x or -x).
HorizontalFirstHop == directions[tracing.i] \in {Vector(1, 0), Vector(-1, 0)}

C17_NoEndTwiceNoneAtPivot ==
  AfterMoveStart =>
    /\ \A m, n \in 1 .. Len(RecordedEnds) :
         m # n => RecordedEnds[m] # RecordedEnds[n]
    /\ \A n \in 1 .. Len(RecordedEnds) : RecordedEnds[n].position # Pivot

\* From the pivot (0,0) the first hop stops on the branch (1,0); its second
\* legs go on in the direction of the first hop to (2,0) and down to (1,1).
C17_Witness ==
  /\ AfterMoveStart
  /\ Pivot = Vector(0, 0)
  /\ RecordedEnds = <<[position |-> Vector(2, 0), clockwise |-> TRUE],
                      [position |-> Vector(1, 1), clockwise |-> TRUE]>>

(***************************************************************************)
(* Termination of start (SpecStartTraceFair).                              *)
(***************************************************************************)
\* A call of followLine is in progress.
Following == tracing.pc \in {"firstHop", "secondLeg"}

\* C18: on the finite grid every call of followLine returns, each of its
\* iterations that does not return moving endPosition one cell further
\* along the ray, so that a call makes at most Max(Width, Height)
\* iterations; and start always completes, after exactly 4 first-hop traces
\* and at most 12 second-leg traces.
C18_StartTerminates ==
  /\ [][(Following /\ tracing'.pc = tracing.pc) =>
          /\ tracing'.endPosition = VectorAdd(tracing.endPosition, tracing.direction)
          /\ tracing'.endPosition \in Points]_vars
  /\ [](tracing.pc # "idle" =>
          /\ tracing.iterations <= Max(Width, Height)
          /\ tracing.firstHops <= 4
          /\ tracing.secondLegs <= 12)
  /\ (Following ~> Returned)
  /\ ((tracing.pc # "idle") ~>
        (tracing.pc = "done" /\ tracing.firstHops = 4 /\ tracing.secondLegs <= 12))

\* With every cell special and the pivot in the middle, start has completed
\* after 4 first-hop traces and 12 second-leg traces.
C18_Witness ==
  /\ tracing.pc = "done"
  /\ tracing.position = Vector(1, 1)
  /\ \A p \in Points : Committed(p)
  /\ tracing.firstHops = 4
  /\ tracing.secondLegs = 12

(***************************************************************************)
(* Persistence of the committed content (Spec).                            *)
(***************************************************************************)
\* C19: no click and no press, move or release handled by a Box, Line or
\* Move strategy turns a committed special cell into anything else, and a
\* release handled by one of them adds exactly the cells of the preview; so
\* a completed Move gesture leaves the lines that touched the pivot in place
\* in addition to the lines routed to the pointer.
C19_SpecialCellsStay ==
  [][/\ (drawFunction.kind # "freeform" \/ event'.type \notin {"press", "move"})
          => \A p \in Points : Committed(p) => cells'[p] = SPECIAL_VALUE
     /\ (drawFunction.kind # "freeform" /\ event'.type = "release")
          => {p \in Points : cells'[p] = SPECIAL_VALUE} =
               {p \in Points : Committed(p)} \cup scratch]_vars

\* The line (0,0)-(2,0) was picked up at (0,0) and dragged to (0,2): after
\* the release the old line is still there, next to the new one from (0,2)
\* over (2,2) to (2,0).
C19_Witness ==
  /\ event.type = "release"
  /\ drawFunction.kind = "move"
  /\ drawFunction.ends = Ref(<<[position |-> Vector(2, 0), clockwise |-> TRUE]>>)
  /\ {p \in Points : Committed(p)} =
       {Vector(0, 0), Vector(1, 0), Vector(2, 0),
        Vector(0, 2), Vector(1, 2), Vector(2, 2), Vector(2, 1)}

====
